---- MODULE Spec2Model ----
(***************************************************************************)
(* Model of zoo_cwltool_runner: the ZooCwltoolRunner.execute lifecycle,    *)
(* the job identifier generation and the parameter handling.               *)
(* Strings that are processed character by character are sequences of      *)
(* one-character strings; opaque texts are TLA+ strings.                    *)
(***************************************************************************)
EXTENDS Integers, Sequences, FiniteSets, TLC

\* ---------------------------------------------------------------- bounds
MaxIdLen == 66
MaxExit == 2
MaxSetOutputs == 4
MaxHyphenRun == 4
MaxSteps == 2
MaxValue == 1

\* ------------------------------------------------------ program constants
SERVICE_SUCCEEDED == 3
SERVICE_FAILED == 4
NamespaceLimit == 63

\* Python's None and a present value
None == << >>
Some(x) == << x >>

\* two execute calls in one working directory
Jobs == {1, 2}

WorkflowFile == "temp-app-package.cwl"
ParamsFile == "params.yaml"
FileNames == {WorkflowFile, ParamsFile}

\* ------------------------------------------------------- string helpers
Rep(c, n) == [i \in 1..n |-> c]

Chars(s) == {s[i] : i \in DOMAIN s}

\* str.replace(a, b) for a one-character a; b is a (possibly empty) string
RECURSIVE Replace(_, _, _)
Replace(s, a, b) ==
    IF s = << >> THEN << >>
    ELSE (IF Head(s) = a THEN b ELSE <<Head(s)>>) \o Replace(Tail(s), a, b)

\* "if" in the place of the inner "while"
StripOneHyphen(value) ==
    IF Len(value) > 0 /\ value[Len(value)] = "-"
    THEN SubSeq(value, 1, Len(value) - 1)
    ELSE value

\* the inner loop of shorten_namespace: while value.endswith("-")
RECURSIVE StripTrailingHyphens(_)
StripTrailingHyphens(value) ==
    IF Len(value) > 0 /\ value[Len(value)] = "-"
    THEN StripTrailingHyphens(SubSeq(value, 1, Len(value) - 1))
    ELSE value

\* a truncation that forgets the inner loop
RECURSIVE shorten_namespace_keep_hyphen(_)
shorten_namespace_keep_hyphen(value) ==
    IF Len(value) > NamespaceLimit
    THEN shorten_namespace_keep_hyphen(SubSeq(value, 1, Len(value) - 1))
    ELSE value

RECURSIVE shorten_namespace(_)
shorten_namespace(value) ==
    IF Len(value) > NamespaceLimit
    THEN shorten_namespace(StripTrailingHyphens(SubSeq(value, 1, Len(value) - 1)))
    ELSE value

\* the f-string of get_job_id before it is shortened
JobIdText(workflow_id, timestamp, token) ==
    Replace(workflow_id, "_", <<"-">>) \o <<"-">>
        \o Replace(timestamp, ".", << >>) \o <<"-">> \o token

get_job_id(workflow_id, timestamp, token) ==
    shorten_namespace(JobIdText(workflow_id, timestamp, token))

\* ------------------------------------------------------- input domains
IdChars == {"a", "0", "_", "-"}

\* workflow identifiers: a short head followed by a run of one character
WorkflowIds ==
    {Rep(c1, n1) \o Rep(c2, n2) :
        c1 \in IdChars, c2 \in IdChars, n1 \in 0..2, n2 \in 0..MaxIdLen}

WaterBodies == <<"w", "a", "t", "e", "r", "_", "b", "o", "d", "i", "e", "s">>

\* str(datetime.now().timestamp()): seconds, ".", fraction without trailing zeros
Timestamps ==
    {<<"1","6","9","9","9","9","9","9","9","9",".","1","2","3","4","5","6">>,
     <<"1","6","9","9","9","9","9","9","9","9",".","5">>}

\* str(uuid.uuid4()): 8-4-4-4-12 hexadecimal digits
Uuid(c) ==
    Rep(c, 8) \o <<"-">> \o Rep(c, 4) \o <<"-", "4">> \o Rep(c, 3)
        \o <<"-", "8">> \o Rep(c, 3) \o <<"-">> \o Rep(c, 12)

Tokens == {Uuid("a"), Uuid("0")}

\* ------------------------------------------------- workflow and inputs
InputNames == <<"aoi", "bands">>
ParameterKeys == <<"aoi", "bands", "process">>
NullableString == <<"null", "string">>
InputTypes == {<<"string">>, NullableString}
InputDefaults == {None, Some("default")}

Last(s) == s[Len(s)]

\* the workflows: every input of InputNames with any default and type
Workflows ==
    {[inputs |-> [i \in DOMAIN InputNames |->
                    [id |-> <<"water_bodies", InputNames[i]>>,
                     default |-> d[i], type |-> t[i]]]] :
        d \in [DOMAIN InputNames -> InputDefaults],
        t \in [DOMAIN InputNames -> InputTypes]}

\* the skip condition written with "and"
get_workflow_inputs_and(workflow, mandatory) ==
    LET kept(inp) == ~mandatory \/ ~(inp.default # None /\ inp.type = NullableString)
        sel == SelectSeq(workflow.inputs, kept)
    IN  [i \in DOMAIN sel |-> Last(sel[i].id)]

get_workflow_inputs(workflow, mandatory) ==
    LET kept(inp) == ~mandatory \/ ~(inp.default # None \/ inp.type = NullableString)
        sel == SelectSeq(workflow.inputs, kept)
    IN  [i \in DOMAIN sel |-> Last(sel[i].id)]

get_processing_parameters(zoo_inputs) ==
    [key \in DOMAIN zoo_inputs |-> zoo_inputs[key].value]

\* all(...) written as any(...)
assert_parameters_any(workflow, zoo_inputs) ==
    LET mandatory == get_workflow_inputs(workflow, TRUE)
    IN  \E i \in DOMAIN mandatory :
            mandatory[i] \in DOMAIN get_processing_parameters(zoo_inputs)

assert_parameters(workflow, zoo_inputs) ==
    LET mandatory == get_workflow_inputs(workflow, TRUE)
    IN  \A i \in DOMAIN mandatory :
            mandatory[i] \in DOMAIN get_processing_parameters(zoo_inputs)

\* {**a, **b} with the precedence reversed
MergeCallerWins(a, b) ==
    [k \in DOMAIN a \cup DOMAIN b |-> IF k \in DOMAIN a THEN a[k] ELSE b[k]]

\* {**a, **b}
Merge(a, b) ==
    [k \in DOMAIN a \cup DOMAIN b |-> IF k \in DOMAIN b THEN b[k] ELSE a[k]]

\* yaml.dump of a mapping: one "key: value" entry per key, keys sorted
YamlDump(mapping) ==
    LET keys == SelectSeq(ParameterKeys, LAMBDA k : k \in DOMAIN mapping)
    IN  [i \in DOMAIN keys |-> <<keys[i], mapping[keys[i]]>>]

\* the name -> {value} mappings a caller may supply
SuppliedInputs ==
    UNION {[ks -> {[value |-> "caller"]}] : ks \in SUBSET {"aoi", "bands", "process"}}

\* what a handler's get_additional_parameters may return
AdditionalParameters ==
    UNION {[ks -> {"handler"}] : ks \in SUBSET {"bands", "process"}}

InitialOutputs ==
    {[k \in {"Result"} |-> [value |-> [result |-> ""]]],
     [k \in {"Result", "stac"} |-> [value |-> [result |-> "stale"]]]}

\* an existing "stac" entry left as it is
set_output_if_absent(zoo_outputs, value) ==
    IF "stac" \in DOMAIN zoo_outputs
    THEN zoo_outputs
    ELSE [k \in DOMAIN zoo_outputs \cup {"stac"} |->
            IF k = "stac" THEN [value |-> value] ELSE zoo_outputs[k]]

\* ZooOutputs.set_output
set_output(zoo_outputs, value) ==
    IF "stac" \in DOMAIN zoo_outputs
    THEN [zoo_outputs EXCEPT !["stac"].value = value]
    ELSE [k \in DOMAIN zoo_outputs \cup {"stac"} |->
            IF k = "stac" THEN [value |-> value] ELSE zoo_outputs[k]]

\* engine standard output texts and json.loads on them
StdoutTexts == {"", "cwltool: error", "{\"result\": \"ok\"}", "{\"result\": \"none\"}"}
StderrTexts == {"INFO final process status"}
ExitCodes == 0..MaxExit

JsonParses(text) == text \in {"{\"result\": \"ok\"}", "{\"result\": \"none\"}"}

JsonLoads(text) ==
    IF text = "{\"result\": \"ok\"}" THEN [result |-> "ok"] ELSE [result |-> "none"]

\* ------------------------------------------------------------- state
VARIABLES
    cwl,        \* cwl[j]: the parsed workflow of job j (its inputs, or its list of elements)
    conf,       \* conf[j]: the host configuration, with the lenv message slot
    inputs,     \* inputs[j]: the name -> {value} mapping supplied by the caller
    outputs,    \* outputs[j]: the name -> {value} output slots
    handler,    \* handler[j]: the ExecutionHandler (job_id slot and its policy)
    files,      \* the working directory shared by the jobs of the process
    pc,         \* pc[j]: position of job j inside execute
    frame,      \* frame[j]: the local variables of execute
    ret,        \* ret[j]: the value returned by execute or by the method called alone
    exc,        \* exc[j]: the exception that left the call
    trace,      \* trace[j]: the calls job j has made to its collaborators
    namespace   \* namespace[j]: the last get_job_id or shorten_namespace evaluation

vars == <<cwl, conf, inputs, outputs, handler, files, pc, frame, ret, exc, trace, namespace>>

EmptyFrame ==
    [wrapped_workflow |-> None, processing_parameters |-> None, res |-> None,
     stream_out |-> None, stream_err |-> None, exit_value |-> None, output |-> None]

Configurations(ids) ==
    {[lenv |-> [Identifier |-> id, message |-> ""]] : id \in ids}

Handlers ==
    {[job_id |-> None, additional_parameters |-> a] : a \in AdditionalParameters}

\* the test scenario of tests/test_water_bodies_service.py, for an idle job
TestWorkflow ==
    [inputs |-> [i \in DOMAIN InputNames |->
        [id |-> <<"water_bodies", InputNames[i]>>, default |-> None, type |-> <<"string">>]]]
TestInputs == [k \in {"aoi", "bands"} |-> [value |-> "caller"]]
TestOutputs == [k \in {"Result"} |-> [value |-> [result |-> ""]]]
TestHandler ==
    [job_id |-> None, additional_parameters |-> [k \in {"process"} |-> "handler"]]
TestConf == [lenv |-> [Identifier |-> WaterBodies, message |-> ""]]

InitRun ==
    /\ files = [f \in FileNames |-> None]
    /\ pc = [j \in Jobs |-> "start"]
    /\ frame = [j \in Jobs |-> EmptyFrame]
    /\ ret = [j \in Jobs |-> None]
    /\ exc = [j \in Jobs |-> None]
    /\ trace = [j \in Jobs |-> << >>]
    /\ namespace = [j \in Jobs |-> None]

\* one job with any workflow, inputs, outputs and handler; the others idle
Init ==
    /\ InitRun
    /\ \E w \in Workflows : cwl = [j \in Jobs |-> IF j = 1 THEN w ELSE TestWorkflow]
    /\ conf = [j \in Jobs |-> TestConf]
    /\ \E i \in SuppliedInputs : inputs = [j \in Jobs |-> IF j = 1 THEN i ELSE TestInputs]
    /\ \E o \in InitialOutputs : outputs = [j \in Jobs |-> IF j = 1 THEN o ELSE TestOutputs]
    /\ \E h \in Handlers : handler = [j \in Jobs |-> IF j = 1 THEN h ELSE TestHandler]

\* ----------------------------------------------------------- execute
\* ZooCwltoolRunner.update_status: the message slot, then the host call
StatusConf(c, message) ==
    IF message # "" THEN [c EXCEPT !.lenv.message = message] ELSE c

\* the progress reported in whole tens
StatusCallTens(c, progress, message) ==
    [op |-> "update_status", progress |-> (progress \div 10) * 10,
     message |-> StatusConf(c, message).lenv.message]

StatusCall(c, progress, message) ==
    [op |-> "update_status", progress |-> progress,
     message |-> StatusConf(c, message).lenv.message]

\* the staging wrapper, a black box over the raw workflow
wrap(workflow, workflow_id) ==
    [stagein |-> "stagein.yaml", main |-> "main.yaml", rules |-> "rules.yaml",
     stageout |-> "stageout.yaml", workflow_id |-> workflow_id, cwl |-> workflow]

Raise(j, name) ==
    /\ pc' = [pc EXCEPT ![j] = "raised"]
    /\ exc' = [exc EXCEPT ![j] = Some(name)]

\* lines 297-302
Validate(j) ==
    /\ pc[j] = "start"
    /\ IF ~assert_parameters(cwl[j], inputs[j])
       THEN /\ ret' = [ret EXCEPT ![j] = Some(SERVICE_FAILED)]
            /\ pc' = [pc EXCEPT ![j] = "returned"]
            /\ UNCHANGED <<conf, trace>>
       ELSE /\ conf' = [conf EXCEPT ![j] = StatusConf(@, "starting execution")]
            /\ trace' = [trace EXCEPT ![j] =
                    Append(@, StatusCall(conf[j], 2, "starting execution"))]
            /\ pc' = [pc EXCEPT ![j] = "wrap"]
            /\ UNCHANGED ret
    /\ UNCHANGED <<cwl, inputs, outputs, handler, files, frame, exc, namespace>>

\* lines 304-306
Wrap(j) ==
    /\ pc[j] = "wrap"
    /\ frame' = [frame EXCEPT ![j].wrapped_workflow =
            Some(wrap(cwl[j], conf[j].lenv.Identifier))]
    /\ conf' = [conf EXCEPT ![j] = StatusConf(@, "workflow wrapped")]
    /\ trace' = [trace EXCEPT ![j] =
            Append(Append(@, [op |-> "wrap"]),
                   StatusCall(conf[j], 5, "workflow wrapped"))]
    /\ pc' = [pc EXCEPT ![j] = "merge"]
    /\ UNCHANGED <<cwl, inputs, outputs, handler, files, ret, exc, namespace>>

\* lines 310-313
MergeParameters(j) ==
    /\ pc[j] = "merge"
    /\ frame' = [frame EXCEPT ![j].processing_parameters =
            Some(Merge(get_processing_parameters(inputs[j]),
                       handler[j].additional_parameters))]
    /\ trace' = [trace EXCEPT ![j] =
            Append(@, [op |-> "get_additional_parameters", job_id |-> handler[j].job_id])]
    /\ pc' = [pc EXCEPT ![j] = "set_job_id"]
    /\ UNCHANGED <<cwl, conf, inputs, outputs, handler, files, ret, exc, namespace>>

JobIdCall(workflow_id, timestamp, token) ==
    [workflow_id |-> workflow_id, timestamp |-> timestamp, token |-> token,
     value |-> get_job_id(workflow_id, timestamp, token)]

\* line 315
SetJobId(j) ==
    /\ pc[j] = "set_job_id"
    /\ \E timestamp \in Timestamps, token \in Tokens :
        LET call == JobIdCall(conf[j].lenv.Identifier, timestamp, token)
        IN  /\ namespace' = [namespace EXCEPT ![j] = Some(call)]
            /\ handler' = [handler EXCEPT ![j].job_id = Some(call.value)]
            /\ trace' = [trace EXCEPT ![j] =
                    Append(@, [op |-> "set_job_id", job_id |-> Some(call.value)])]
    /\ pc' = [pc EXCEPT ![j] = "write_workflow"]
    /\ UNCHANGED <<cwl, conf, inputs, outputs, files, frame, ret, exc>>

\* lines 316-317
WriteWorkflow(j) ==
    /\ pc[j] = "write_workflow"
    /\ files' = [files EXCEPT ![WorkflowFile] =
            Some([writer |-> j, text |-> frame[j].wrapped_workflow[1]])]
    /\ trace' = [trace EXCEPT ![j] = Append(@, [op |-> "write", file |-> WorkflowFile])]
    /\ pc' = [pc EXCEPT ![j] = "write_params"]
    /\ UNCHANGED <<cwl, conf, inputs, outputs, handler, frame, ret, exc, namespace>>

\* lines 319-322
WriteParams(j) ==
    /\ pc[j] = "write_params"
    /\ files' = [files EXCEPT ![ParamsFile] =
            Some([writer |-> j, text |-> YamlDump(frame[j].processing_parameters[1])])]
    /\ conf' = [conf EXCEPT ![j] = StatusConf(@, "execution submitted")]
    /\ trace' = [trace EXCEPT ![j] =
            Append(Append(@, [op |-> "write", file |-> ParamsFile]),
                   StatusCall(conf[j], 18, "execution submitted"))]
    /\ pc' = [pc EXCEPT ![j] = "engine"]
    /\ UNCHANGED <<cwl, inputs, outputs, handler, frame, ret, exc, namespace>>

\* lines 326-351: cwltool's main, which reads the two files, then the exit value.
\* Any exit code and any output text may come back; an engine that finds one
\* of its two input files missing fails without printing an output object.
RunEngine(j) ==
    /\ pc[j] = "engine"
    /\ \E res \in ExitCodes, out \in StdoutTexts, err \in StderrTexts :
        /\ (files[WorkflowFile] = None \/ files[ParamsFile] = None)
                => (res # 0 /\ out = "")
        /\ frame' = [frame EXCEPT
                ![j].res = Some(res), ![j].stream_out = Some(out),
                ![j].stream_err = Some(err),
                ![j].exit_value =
                    Some(IF res = 0 THEN SERVICE_SUCCEEDED ELSE SERVICE_FAILED)]
    /\ conf' = [conf EXCEPT ![j] =
            StatusConf(@, "delivering outputs, logs and usage report")]
    /\ trace' = [trace EXCEPT ![j] =
            Append(Append(@, [op |-> "main", workflow |-> files[WorkflowFile],
                              job_order |-> files[ParamsFile]]),
                   StatusCall(conf[j], 90, "delivering outputs, logs and usage report"))]
    /\ pc' = [pc EXCEPT ![j] = "collect"]
    /\ UNCHANGED <<cwl, inputs, outputs, handler, files, ret, exc, namespace>>

\* lines 354-355
Collect(j) ==
    /\ pc[j] = "collect"
    /\ IF ~JsonParses(frame[j].stream_out[1])
       THEN /\ Raise(j, "JSONDecodeError")
            /\ UNCHANGED <<frame, outputs, trace>>
       ELSE /\ frame' = [frame EXCEPT ![j].output = Some(JsonLoads(frame[j].stream_out[1]))]
            /\ outputs' = [outputs EXCEPT ![j] =
                    set_output(@, JsonLoads(frame[j].stream_out[1]))]
            /\ trace' = [trace EXCEPT ![j] =
                    Append(@, [op |-> "set_output",
                               value |-> JsonLoads(frame[j].stream_out[1])])]
            /\ pc' = [pc EXCEPT ![j] = "handle_outputs"]
            /\ UNCHANGED exc
    /\ UNCHANGED <<cwl, conf, inputs, handler, files, ret, namespace>>

\* a failed callback answered by running the engine again
HandleOutputsRetry(j) ==
    /\ pc[j] = "handle_outputs"
    /\ \E raises \in BOOLEAN :
        LET call == [op |-> "handle_outputs", log |-> frame[j].stream_err[1],
                     output |-> frame[j].output[1], usage_report |-> None,
                     tool_logs |-> None, job_id |-> handler[j].job_id]
        IN  IF raises
            THEN /\ pc' = [pc EXCEPT ![j] = "engine"]
                 /\ trace' = [trace EXCEPT ![j] = Append(@, call)]
                 /\ UNCHANGED <<conf, exc>>
            ELSE /\ conf' = [conf EXCEPT ![j] = StatusConf(@, "clean-up resources")]
                 /\ trace' = [trace EXCEPT ![j] =
                        Append(Append(@, call),
                               StatusCall(conf[j], 97, "clean-up resources"))]
                 /\ pc' = [pc EXCEPT ![j] = "remove_workflow"]
                 /\ UNCHANGED exc
    /\ UNCHANGED <<cwl, inputs, outputs, handler, files, frame, ret, namespace>>

\* lines 357-364: the handler's callback may raise
HandleOutputs(j) ==
    /\ pc[j] = "handle_outputs"
    /\ \E raises \in BOOLEAN :
        LET call == [op |-> "handle_outputs", log |-> frame[j].stream_err[1],
                     output |-> frame[j].output[1], usage_report |-> None,
                     tool_logs |-> None, job_id |-> handler[j].job_id]
        IN  IF raises
            THEN /\ Raise(j, "HandlerError")
                 /\ trace' = [trace EXCEPT ![j] = Append(@, call)]
                 /\ UNCHANGED conf
            ELSE /\ conf' = [conf EXCEPT ![j] = StatusConf(@, "clean-up resources")]
                 /\ trace' = [trace EXCEPT ![j] =
                        Append(Append(@, call),
                               StatusCall(conf[j], 97, "clean-up resources"))]
                 /\ pc' = [pc EXCEPT ![j] = "remove_workflow"]
                 /\ UNCHANGED exc
    /\ UNCHANGED <<cwl, inputs, outputs, handler, files, frame, ret, namespace>>

\* line 367: os.remove raises when the file is not there
RemoveWorkflow(j) ==
    /\ pc[j] = "remove_workflow"
    /\ IF files[WorkflowFile] = None
       THEN /\ Raise(j, "FileNotFoundError")
            /\ UNCHANGED <<files, trace>>
       ELSE /\ files' = [files EXCEPT ![WorkflowFile] = None]
            /\ trace' = [trace EXCEPT ![j] =
                    Append(@, [op |-> "remove", file |-> WorkflowFile,
                               content |-> files[WorkflowFile]])]
            /\ pc' = [pc EXCEPT ![j] = "remove_params"]
            /\ UNCHANGED exc
    /\ UNCHANGED <<cwl, conf, inputs, outputs, handler, frame, ret, namespace>>

\* the comparison made against the other outcome
FinalMessageSwapped(exit_value) ==
    IF exit_value = SERVICE_SUCCEEDED THEN "execution failed" ELSE "execution successful"

FinalMessage(exit_value) ==
    IF exit_value = SERVICE_FAILED THEN "execution failed" ELSE "execution successful"

\* lines 368-375
RemoveParams(j) ==
    /\ pc[j] = "remove_params"
    /\ IF files[ParamsFile] = None
       THEN /\ Raise(j, "FileNotFoundError")
            /\ UNCHANGED <<files, trace, conf, ret>>
       ELSE /\ files' = [files EXCEPT ![ParamsFile] = None]
            /\ conf' = [conf EXCEPT ![j] =
                    StatusConf(@, FinalMessage(frame[j].exit_value[1]))]
            /\ trace' = [trace EXCEPT ![j] =
                    Append(Append(@, [op |-> "remove", file |-> ParamsFile,
                                      content |-> files[ParamsFile]]),
                           StatusCall(conf[j], 100, FinalMessage(frame[j].exit_value[1])))]
            /\ ret' = [ret EXCEPT ![j] = frame[j].exit_value]
            /\ pc' = [pc EXCEPT ![j] = "returned"]
            /\ UNCHANGED exc
    /\ UNCHANGED <<cwl, inputs, outputs, handler, frame, namespace>>

Execute(j) ==
    \/ Validate(j)
    \/ Wrap(j)
    \/ MergeParameters(j)
    \/ SetJobId(j)
    \/ WriteWorkflow(j)
    \/ WriteParams(j)
    \/ RunEngine(j)
    \/ Collect(j)
    \/ HandleOutputs(j)
    \/ RemoveWorkflow(j)
    \/ RemoveParams(j)

\* one job alone in its working directory
Next == \E j \in {1} : Execute(j)

Spec == Init /\ [][Next]_vars

\* ------------------------------------------------- job identifier alone
\* ZooCwltoolRunner.get_job_id called on a freshly constructed runner
CallGetJobId(j) ==
    /\ pc[j] = "start"
    /\ namespace[j] = None
    /\ \E timestamp \in Timestamps, token \in Tokens :
        namespace' = [namespace EXCEPT ![j] =
            Some(JobIdCall(conf[j].lenv.Identifier, timestamp, token))]
    /\ UNCHANGED <<cwl, conf, inputs, outputs, handler, files, pc, frame, ret, exc, trace>>

InitJobId ==
    /\ InitRun
    /\ cwl = [j \in Jobs |-> TestWorkflow]
    /\ \E c \in Configurations(WorkflowIds) :
            conf = [j \in Jobs |-> IF j = 1 THEN c ELSE TestConf]
    /\ inputs = [j \in Jobs |-> TestInputs]
    /\ outputs = [j \in Jobs |-> TestOutputs]
    /\ handler = [j \in Jobs |-> TestHandler]

NextJobId == \E j \in {1} : CallGetJobId(j)

SpecJobId == InitJobId /\ [][NextJobId]_vars

\* ------------------------------------- two jobs in one working directory
MissingBands == [k \in {"aoi"} |-> [value |-> "caller"]]

InitConc ==
    /\ InitRun
    /\ cwl = [j \in Jobs |-> TestWorkflow]
    /\ conf = [j \in Jobs |-> TestConf]
    /\ inputs \in [Jobs -> {TestInputs, MissingBands}]
    /\ outputs = [j \in Jobs |-> TestOutputs]
    /\ handler = [j \in Jobs |-> TestHandler]

NextConc == \E j \in Jobs : Execute(j)

SpecConc == InitConc /\ [][NextConc]_vars

\* ------------------------------------------- shorten_namespace alone
\* letters, a run of hyphens, then at most two more letters
NamespaceInputs ==
    {Rep("a", n1) \o Rep("-", n2) \o Rep("b", n3) :
        n1 \in 0..MaxIdLen, n2 \in 0..MaxHyphenRun, n3 \in 0..2}

\* the static method ZooCwltoolRunner.shorten_namespace called on a string
CallShortenNamespace(j) ==
    /\ pc[j] = "start"
    /\ namespace[j] = None
    /\ \E value \in NamespaceInputs :
        namespace' = [namespace EXCEPT ![j] =
            Some([input |-> value, value |-> shorten_namespace(value)])]
    /\ UNCHANGED <<cwl, conf, inputs, outputs, handler, files, pc, frame, ret, exc, trace>>

InitShorten ==
    /\ InitRun
    /\ cwl = [j \in Jobs |-> TestWorkflow]
    /\ conf = [j \in Jobs |-> TestConf]
    /\ inputs = [j \in Jobs |-> TestInputs]
    /\ outputs = [j \in Jobs |-> TestOutputs]
    /\ handler = [j \in Jobs |-> TestHandler]

NextShorten == \E j \in {1} : CallShortenNamespace(j)

SpecShorten == InitShorten /\ [][NextShorten]_vars

\* ------------------------------------------------ resource evaluation
Fields ==
    <<"coresMin", "coresMax", "ramMin", "ramMax",
      "tmpdirMin", "tmpdirMax", "outdirMin", "outdirMax">>
FieldSet == {Fields[i] : i \in DOMAIN Fields}

ParsedRequirement == "cwl_utils.parser.ResourceRequirement"
HintRequirement == "zoo_cwltool_runner.ResourceRequirement"

\* a parsed ResourceRequirement block with the given fields set
Requirement(values) ==
    [k \in FieldSet \cup {"pytype"} |->
        IF k = "pytype" THEN ParsedRequirement
        ELSE IF k \in DOMAIN values THEN Some(values[k]) ELSE None]

OtherRequirement == [pytype |-> "cwl_utils.parser.ScatterFeatureRequirement"]

\* ResourceRequirement.from_dict: the keys of the hint that are fields
from_dict(env) ==
    [k \in FieldSet \cup {"pytype"} |->
        IF k = "pytype" THEN HintRequirement
        ELSE IF k \in DOMAIN env THEN Some(env[k]) ELSE None]

IsResourceRequirement(requirement) == requirement.pytype = ParsedRequirement

ExplicitRequirements(elem) == SelectSeq(elem.requirements[1], IsResourceRequirement)

HintRequirements(elem) ==
    LET sel == SelectSeq(elem.hints[1], LAMBDA hint : hint["class"] = "ResourceRequirement")
    IN  [i \in DOMAIN sel |-> from_dict(sel[i])]

\* Workflow.get_resource_requirement, for an element whose requirements are a list
get_resource_requirement(elem) ==
    LET explicit == ExplicitRequirements(elem)
    IN  IF Len(explicit) = 1 THEN Some(explicit[1])
        ELSE LET found == IF elem.hints # None THEN HintRequirements(elem) ELSE explicit
             IN  IF Len(found) = 1 THEN Some(found[1]) ELSE None

\* iterating elem.requirements raises TypeError when the element has none
RequirementsMissing(elem) == elem.requirements = None

\* Workflow.get_object_by_id: the first element with that identifier
get_object_by_id(document, id) ==
    document[CHOOSE i \in DOMAIN document :
        /\ Last(document[i].id) = id
        /\ \A k \in 1..(i - 1) : Last(document[k].id) # id]

RECURSIVE Flatten(_)
Flatten(seqs) == IF seqs = << >> THEN << >> ELSE Head(seqs) \o Flatten(Tail(seqs))

IsWorkflow(elem) == elem.class = "Workflow"

\* the elements eval_resource asks for a requirement, in order: each
\* workflow element, then the target of each of its steps
WorkflowInspections(document, e) ==
    <<[elem |-> e, step |-> 0, target |-> document[e], multiplier |-> 1]>>
    \o [s \in DOMAIN document[e].steps |->
            [elem |-> e, step |-> s,
             target |-> get_object_by_id(document, Tail(document[e].steps[s].run)[1]),
             multiplier |-> IF document[e].steps[s].scatter # None THEN 2 ELSE 1]]

Inspections(document) ==
    Flatten([e \in DOMAIN document |->
        IF IsWorkflow(document[e]) THEN WorkflowInspections(document, e) ELSE << >>])

\* "if getattr(resource_requirement, resource_type)"
Present(field) == field # None /\ field[1] # 0

\* one append per field that is present, in the order of the field list
Appends(inspection, requirement) ==
    LET set == SelectSeq(Fields, LAMBDA f : Present(requirement[f]))
    IN  [i \in DOMAIN set |->
            [op |-> "append", elem |-> inspection.elem, step |-> inspection.step,
             field |-> set[i],
             value |-> requirement[set[i]][1] * inspection.multiplier]]

InspectionCalls(inspection) ==
    LET found == get_resource_requirement(inspection.target)
    IN  <<[op |-> "get_resource_requirement", elem |-> inspection.elem,
           step |-> inspection.step, target |-> inspection.target, returned |-> found]>>
        \o (IF found = None THEN << >> ELSE Appends(inspection, found[1]))

\* the inspections made before the first one that raises
Completed(inspections) ==
    LET raising == {i \in DOMAIN inspections : RequirementsMissing(inspections[i].target)}
        stop == IF raising = {} THEN Len(inspections) + 1
                ELSE CHOOSE i \in raising : \A k \in raising : i <= k
    IN  SubSeq(inspections, 1, stop - 1)

EvalCalls(document) ==
    LET done == Completed(Inspections(document))
    IN  Flatten([i \in DOMAIN done |-> InspectionCalls(done[i])])

\* Workflow.eval_resource: the lists by field
eval_resource(document) ==
    [f \in FieldSet |->
        LET appends == SelectSeq(EvalCalls(document),
                                 LAMBDA e : e.op = "append" /\ e.field = f)
        IN  [i \in DOMAIN appends |-> appends[i].value]]

EvalResource(j) ==
    /\ pc[j] = "start"
    /\ trace' = [trace EXCEPT ![j] = EvalCalls(cwl[j])]
    /\ IF \E i \in DOMAIN Inspections(cwl[j]) :
                RequirementsMissing(Inspections(cwl[j])[i].target)
       THEN /\ Raise(j, "TypeError")
            /\ UNCHANGED ret
       ELSE /\ ret' = [ret EXCEPT ![j] = Some(eval_resource(cwl[j]))]
            /\ pc' = [pc EXCEPT ![j] = "returned"]
            /\ UNCHANGED exc
    /\ UNCHANGED <<cwl, conf, inputs, outputs, handler, files, frame, namespace>>

\* the documents: a top-level workflow "main", a tool and, in some, a
\* nested workflow "sub" whose one step runs the tool
RequirementValues == 0..MaxValue

\* the tool's block: one of the eight fields set, to any value
VariableRequirements ==
    {Requirement([k \in {f} |-> v]) : f \in FieldSet, v \in RequirementValues}

MainRequirement == Requirement([coresMin |-> 1, ramMin |-> 0])
SecondRequirement == Requirement([coresMin |-> 2, tmpdirMax |-> 3])
SubRequirement == Requirement([coresMax |-> 4, outdirMin |-> 5])

HintA == [class |-> "ResourceRequirement", coresMin |-> 3, ramMin |-> 0, ramMax |-> 6]
HintB == [class |-> "ResourceRequirement", outdirMax |-> 7]
HintOther == [class |-> "DockerRequirement", dockerPull |-> "image"]

RequirementLists(a) ==
    {None, Some(<< >>), Some(<<a>>), Some(<<OtherRequirement, a>>),
     Some(<<a, SecondRequirement>>)}

HintLists == {None, Some(<<HintOther, HintA>>), Some(<<HintA, HintB>>)}

StepLists(targets) ==
    UNION {[1..n -> {[run |-> <<"#", t>>, scatter |-> sc] :
                        t \in targets, sc \in {None, Some("item")}}] : n \in 0..MaxSteps}

Element(class, name, requirements, hints, steps) ==
    [class |-> class, id |-> <<"io://", name>>, requirements |-> requirements,
     hints |-> hints, steps |-> steps]

MainElements(targets) ==
    {Element("Workflow", "main", r, h, st) :
        r \in {None, Some(<<OtherRequirement>>), Some(<<OtherRequirement, MainRequirement>>)},
        h \in {None, Some(<<HintA>>)}, st \in StepLists(targets)}

ToolElements ==
    {Element("CommandLineTool", "tool", r, h, << >>) :
        r \in UNION {RequirementLists(a) : a \in VariableRequirements}, h \in HintLists}

SubElements ==
    {Element("Workflow", "sub", r, None, <<[run |-> <<"#", "tool">>, scatter |-> sc]>>) :
        r \in {Some(<< >>), Some(<<SubRequirement>>)}, sc \in {None, Some("item")}}

\* the tool carries hints in the documents without a nested workflow
Documents ==
    {<<m, t>> : m \in MainElements({"tool"}), t \in ToolElements}
    \cup {<<m, t, w>> : m \in MainElements({"tool", "sub"}),
                         t \in {e \in ToolElements : e.hints = None},
                         w \in SubElements}

InitResources ==
    /\ InitRun
    /\ \E d \in Documents : cwl = [j \in Jobs |-> IF j = 1 THEN d ELSE TestWorkflow]
    /\ conf = [j \in Jobs |-> TestConf]
    /\ inputs = [j \in Jobs |-> TestInputs]
    /\ outputs = [j \in Jobs |-> TestOutputs]
    /\ handler = [j \in Jobs |-> TestHandler]

NextResources == \E j \in {1} : EvalResource(j)

SpecResources == InitResources /\ [][NextResources]_vars

\* ------------------------------------------------- output slots alone
OutputValues == {[result |-> r] : r \in {"ok", "none", "stale"}}

\* ZooOutputs.set_output called on the outputs of a constructed runner
CallSetOutput(j) ==
    /\ pc[j] = "start"
    /\ Len(trace[j]) < MaxSetOutputs
    /\ \E value \in OutputValues :
        /\ outputs' = [outputs EXCEPT ![j] = set_output(@, value)]
        /\ trace' = [trace EXCEPT ![j] = Append(@, [op |-> "set_output", value |-> value])]
    /\ UNCHANGED <<cwl, conf, inputs, handler, files, pc, frame, ret, exc, namespace>>

InitOutputs ==
    /\ InitRun
    /\ cwl = [j \in Jobs |-> TestWorkflow]
    /\ conf = [j \in Jobs |-> TestConf]
    /\ inputs = [j \in Jobs |-> TestInputs]
    /\ \E o \in InitialOutputs : outputs = [j \in Jobs |-> IF j = 1 THEN o ELSE TestOutputs]
    /\ handler = [j \in Jobs |-> TestHandler]

NextOutputs == \E j \in {1} : CallSetOutput(j)

SpecOutputs == InitOutputs /\ [][NextOutputs]_vars

\* ------------------------------------------------------------ claims
Calls(j, op) == SelectSeq(trace[j], LAMBDA e : e.op = op)
Count(j, op) == Len(Calls(j, op))
Position(j, op) == CHOOSE i \in DOMAIN trace[j] : trace[j][i].op = op
Terminal(j) == pc[j] \in {"returned", "raised"}
Returned(j) == pc[j] = "returned"
FilesWritten(j) == Count(j, "write") = 2
EngineReturned(j) == Count(j, "main") = 1

\* some workflow input without default and not of the nullable-string type
\* is not a key of the supplied inputs
MissingMandatory(j) ==
    \E i \in DOMAIN cwl[j].inputs :
        /\ cwl[j].inputs[i].default = None
        /\ cwl[j].inputs[i].type # NullableString
        /\ Last(cwl[j].inputs[i].id) \notin DOMAIN inputs[j]

OutputParses(j) == EngineReturned(j) /\ JsonParses(frame[j].stream_out[1])

\* C1: whenever execute has ended after writing the two temporary files,
\* both files have been removed, whatever happened after the submission.
C1_CleanupAlwaysRuns ==
    \A j \in Jobs :
        (Terminal(j) /\ FilesWritten(j))
            => /\ Count(j, "remove") = 2
               /\ \A f \in FileNames : files[f] = None

\* C2: with a mandatory input missing, execute returns SERVICE_FAILED and has
\* done nothing else: no collaborator was called, no file was written and the
\* outputs mapping never changes.
C2_ValidationFailureNoPartialWork ==
    /\ [](\A j \in Jobs : MissingMandatory(j) =>
            /\ pc[j] \in {"start", "returned"}
            /\ (Returned(j) => ret[j] = Some(SERVICE_FAILED))
            /\ trace[j] = << >>
            /\ handler[j].job_id = None
            /\ \A f \in FileNames : files[f] = None)
    /\ [][\A j \in Jobs : MissingMandatory(j) => outputs'[j] = outputs[j]]_vars

C2_Witness == MissingMandatory(1) /\ Returned(1) /\ ret[1] = Some(SERVICE_FAILED)

LastCall(j) == trace[j][Len(trace[j])]

\* the outcome, the stored output and the terminal report of a returned run
OutcomeFollowsExitCode(j) ==
    /\ Returned(j)
    /\ (ret[j] = Some(SERVICE_SUCCEEDED)) <=> (frame[j].res = Some(0))
    /\ (frame[j].res # Some(0)) => ret[j] = Some(SERVICE_FAILED)
    /\ outputs[j]["stac"].value = JsonLoads(frame[j].stream_out[1])
    /\ LastCall(j).op = "update_status"
    /\ LastCall(j).progress = 100
    /\ LastCall(j).message = conf[j].lenv.message
    /\ conf[j].lenv.message =
            (IF ret[j] = Some(SERVICE_SUCCEEDED)
             THEN "execution successful" ELSE "execution failed")

\* C3 as stated: every run that passed validation and whose engine output
\* parses ends by returning Succeeded exactly for exit code 0 and Failed for
\* any other, with the parsed output under "stac" and the matching message
\* reported last with progress 100.
C3_Original ==
    \A j \in Jobs :
        (Terminal(j) /\ ~MissingMandatory(j) /\ OutputParses(j))
            => OutcomeFollowsExitCode(j)

\* C3 amended: the same for every such run in which handle_outputs does not
\* raise; the parsed output is under "stac" from the moment it is parsed,
\* also when handle_outputs raises afterwards.
C3_OutcomeFollowsExitCode ==
    \A j \in Jobs :
        /\ (Terminal(j) /\ ~MissingMandatory(j) /\ OutputParses(j)
                /\ exc[j] # Some("HandlerError"))
              => OutcomeFollowsExitCode(j)
        /\ frame[j].output # None
              => outputs[j]["stac"].value = JsonLoads(frame[j].stream_out[1])

C3_Witness ==
    /\ Returned(1) /\ OutputParses(1)
    /\ frame[1].res = Some(1)
    /\ ret[1] = Some(SERVICE_FAILED)
    /\ conf[1].lenv.message = "execution failed"

\* C4: once the engine has returned, handle_outputs is called exactly once
\* in the run, after the engine call, with the captured standard error as
\* log and the parsed standard output (the value under "stac") as output.
C4_HandleOutputsOnce ==
    \A j \in Jobs :
        /\ Count(j, "handle_outputs") <= 1
        /\ Count(j, "handle_outputs") = 1 =>
            /\ EngineReturned(j)
            /\ Position(j, "main") < Position(j, "handle_outputs")
            /\ Calls(j, "handle_outputs")[1].log = frame[j].stream_err[1]
            /\ Calls(j, "handle_outputs")[1].output = JsonLoads(frame[j].stream_out[1])
            /\ Calls(j, "handle_outputs")[1].output = outputs[j]["stac"].value
        /\ (Terminal(j) /\ EngineReturned(j)) => Count(j, "handle_outputs") = 1

\* C5: a validated run sets the handler's job identifier exactly once and
\* before get_additional_parameters, so that every handler call of the run
\* reads a job identifier that is not None.
C5_JobIdSetBeforeMerge ==
    \A j \in Jobs :
        /\ Count(j, "set_job_id") <= 1
        /\ \A i \in DOMAIN trace[j] :
            trace[j][i].op \in {"get_additional_parameters", "handle_outputs"}
                => /\ trace[j][i].job_id # None
                   /\ Count(j, "set_job_id") = 1
                   /\ Position(j, "set_job_id") < i

\* C6: an engine output that is empty or does not parse ends the run with
\* the Failed outcome, not an exception, and both temporary files removed,
\* for every exit code.
C6_UnparseableOutputFails ==
    \A j \in Jobs :
        (Terminal(j) /\ EngineReturned(j) /\ ~JsonParses(frame[j].stream_out[1]))
            => /\ Returned(j)
               /\ ret[j] = Some(SERVICE_FAILED)
               /\ exc[j] = None
               /\ \A f \in FileNames : files[f] = None

\* C7: with two interleaved execute calls each engine invocation reads the
\* two files its own job wrote, each job removes only its own files and no
\* removal fails because of the other job.
C7_NoSharedFiles ==
    \A j \in Jobs :
        /\ \A i \in DOMAIN trace[j] :
            /\ trace[j][i].op = "main" =>
                /\ trace[j][i].workflow # None
                /\ trace[j][i].job_order # None
                /\ trace[j][i].workflow[1].writer = j
                /\ trace[j][i].job_order[1].writer = j
            /\ trace[j][i].op = "remove" => trace[j][i].content[1].writer = j
        /\ exc[j] # Some("FileNotFoundError")

\* C8: every job identifier has at most 63 characters, does not end with a
\* hyphen and uses only characters of the untruncated text or the hyphen.
C8_JobIdBounded ==
    \A j \in Jobs :
        namespace[j] # None =>
            LET call == namespace[j][1]
                text == Replace(call.workflow_id, "_", <<"-">>) \o <<"-">>
                            \o SelectSeq(call.timestamp, LAMBDA c : c # ".")
                            \o <<"-">> \o call.token
            IN  /\ Len(call.value) <= 63
                /\ (call.value # << >> => Last(call.value) # "-")
                /\ Chars(call.value) \subseteq (Chars(text) \cup {"-"})

\* the cut at 63 characters falls on a hyphen of the token
C8_Witness ==
    /\ namespace[1] # None
    /\ LET call == namespace[1][1]
           text == JobIdText(call.workflow_id, call.timestamp, call.token)
       IN  /\ Len(text) > 63
           /\ text[63] = "-"
           /\ Len(call.value) < 63

\* C9: for every workflow identifier of lowercase letters, digits,
\* underscores and hyphens the job identifier is a DNS label: not empty, at
\* most 63 characters, neither starting nor ending with a hyphen.
C9_JobIdDnsLabel ==
    \A j \in Jobs :
        namespace[j] # None =>
            LET value == namespace[j][1].value
            IN  /\ value # << >>
                /\ Len(value) <= 63
                /\ value[1] # "-"
                /\ Last(value) # "-"

\* C10: the persisted parameters are the union of the caller's parameters
\* and the handler's additional parameters, the handler's value winning on
\* a key of both.
C10_MergedParameters ==
    \A j \in Jobs :
        (files[ParamsFile] # None /\ files[ParamsFile][1].writer = j) =>
            LET entries == files[ParamsFile][1].text
                additional == handler[j].additional_parameters
            IN  /\ {entries[i][1] : i \in DOMAIN entries}
                        = DOMAIN inputs[j] \cup DOMAIN additional
                /\ \A i, k \in DOMAIN entries : entries[i][1] = entries[k][1] => i = k
                /\ \A i \in DOMAIN entries :
                    entries[i][2] =
                        (IF entries[i][1] \in DOMAIN additional
                         THEN additional[entries[i][1]]
                         ELSE inputs[j][entries[i][1]].value)

\* a key of both mappings and a key of each alone have been persisted
C10_Witness ==
    /\ files[ParamsFile] # None
    /\ "bands" \in DOMAIN inputs[1] \cap DOMAIN handler[1].additional_parameters
    /\ "aoi" \in DOMAIN inputs[1]
    /\ "process" \in DOMAIN handler[1].additional_parameters \ DOMAIN inputs[1]

\* C11: assert_parameters is true exactly when every workflow input without
\* default and not of the nullable-string type is a key of the supplied
\* parameters; keys that are no workflow input never make it false.
C11_AssertParameters ==
    \A j \in Jobs :
        /\ assert_parameters(cwl[j], inputs[j]) <=> ~MissingMandatory(j)
        /\ pc[j] # "start" =>
            ((Returned(j) /\ trace[j] = << >>) <=> MissingMandatory(j))

\* validation passed with a key that is no workflow input and with an
\* optional input left out
C11_Witness ==
    /\ pc[1] = "wrap"
    /\ "process" \in DOMAIN inputs[1]
    /\ \E i \in DOMAIN cwl[1].inputs :
        /\ Last(cwl[1].inputs[i].id) \notin DOMAIN inputs[1]
        /\ cwl[1].inputs[i].default = None
    /\ \E i \in DOMAIN cwl[1].inputs :
        /\ Last(cwl[1].inputs[i].id) \notin DOMAIN inputs[1]
        /\ cwl[1].inputs[i].type # NullableString

\* the lifecycle steps a call belongs to; 0 for the calls that are no step
Rank(op) ==
    CASE op = "wrap" -> 2
      [] op = "write" -> 3
      [] op = "main" -> 4
      [] op = "set_output" -> 5
      [] op = "handle_outputs" -> 6
      [] op = "remove" -> 7
      [] OTHER -> 0

Steps(j) == SelectSeq(trace[j], LAMBDA e : Rank(e.op) > 0)

\* C18: the steps of a run happen at most once each and in the order
\* validation, wrapping, writing the two files, engine, storing the parsed
\* output, handle_outputs, removing the two files, return; a step happens
\* only when all earlier ones are complete and the engine runs at most once.
C18_LifecycleOrder ==
    \A j \in Jobs :
        LET steps == Steps(j)
        IN  /\ \A i, k \in DOMAIN steps :
                    i < k => Rank(steps[i].op) <= Rank(steps[k].op)
            /\ Count(j, "wrap") <= 1 /\ Count(j, "write") <= 2
            /\ Count(j, "main") <= 1 /\ Count(j, "set_output") <= 1
            /\ Count(j, "handle_outputs") <= 1 /\ Count(j, "remove") <= 2
            /\ \A i, k \in DOMAIN steps :
                    (i < k /\ steps[i].op = steps[k].op) => steps[i].file # steps[k].file
            /\ (steps # << >> \/ pc[j] \notin {"start", "returned"})
                    => ~MissingMandatory(j)
            /\ Count(j, "write") > 0 => Count(j, "wrap") = 1
            /\ Count(j, "main") > 0 => Count(j, "write") = 2
            /\ Count(j, "set_output") > 0 => Count(j, "main") = 1
            /\ Count(j, "handle_outputs") > 0 => Count(j, "set_output") = 1
            /\ Count(j, "remove") > 0 => Count(j, "handle_outputs") = 1
            /\ (Returned(j) /\ ~MissingMandatory(j)) => Count(j, "remove") = 2
            /\ ret[j] # None => Returned(j)

\* a run that went through every step and returned
C18_Witness ==
    /\ Returned(1)
    /\ [i \in DOMAIN Steps(1) |-> Steps(1)[i].op]
            = <<"wrap", "write", "write", "main", "set_output", "handle_outputs",
                "remove", "remove">>

Reports(j) == Calls(j, "update_status")

\* the calls of a run between two status reports, by progress value
Checkpoints ==
    <<"update_status", "wrap", "update_status", "get_additional_parameters",
      "set_job_id", "write", "write", "update_status", "main", "update_status",
      "set_output", "handle_outputs", "update_status", "remove", "remove",
      "update_status">>

\* C19: the progress values of a run are within 0..100 and strictly
\* increasing; a validated run that returns has reported exactly 2, 5, 18,
\* 90, 97 and 100 at the six checkpoints, and 100 is the last call of the
\* run, made after both files were removed.
C19_StatusReports ==
    \A j \in Jobs :
        LET reports == Reports(j)
        IN  /\ \A i \in DOMAIN reports : reports[i].progress \in 0..100
            /\ \A i, k \in DOMAIN reports :
                    i < k => reports[i].progress < reports[k].progress
            /\ (Returned(j) /\ ~MissingMandatory(j)) =>
                /\ [i \in DOMAIN trace[j] |-> trace[j][i].op] = Checkpoints
                /\ [i \in DOMAIN reports |-> reports[i].progress]
                        = <<2, 5, 18, 90, 97, 100>>
            /\ \A i \in DOMAIN trace[j] :
                    (trace[j][i].op = "update_status" /\ trace[j][i].progress = 100)
                        => /\ i = Len(trace[j])
                           /\ Count(j, "remove") = 2
                           /\ Returned(j)

C19_Witness ==
    /\ Returned(1)
    /\ Len(Reports(1)) = 6
    /\ \A f \in FileNames : files[f] = None

\* C12: after any sequence of set_output calls the mapping has its "stac"
\* entry with the value of the last call, whether or not "stac" was there
\* before, and no call changes, adds or removes any other entry.
C12_SetOutputLastWins ==
    /\ [](\A j \in Jobs : Count(j, "set_output") > 0 =>
            /\ "stac" \in DOMAIN outputs[j]
            /\ outputs[j]["stac"].value
                    = Calls(j, "set_output")[Count(j, "set_output")].value)
    /\ [][\A j \in Jobs :
            /\ DOMAIN outputs'[j] \in {DOMAIN outputs[j], DOMAIN outputs[j] \cup {"stac"}}
            /\ \A k \in DOMAIN outputs[j] \ {"stac"} : outputs'[j][k] = outputs[j][k]]_vars

\* two calls with different values, the second one kept
C12_Witness ==
    /\ Count(1, "set_output") = 2
    /\ trace[1][1].value # trace[1][2].value
    /\ outputs[1]["stac"].value = trace[1][2].value
    /\ trace[1][1].value # [result |-> "stale"]
    /\ trace[1][2].value # [result |-> "stale"]

\* C20: the result of shorten_namespace is a prefix of its input; an input
\* of at most 63 characters comes back unchanged; for a longer input the
\* result is the longest prefix of at most 63 characters that does not end
\* with a hyphen; shortening the result again changes nothing.
C20_ShortenIsPrefix ==
    \A j \in Jobs :
        namespace[j] # None =>
            LET input == namespace[j][1].input
                value == namespace[j][1].value
            IN  /\ Len(value) <= Len(input)
                /\ value = SubSeq(input, 1, Len(value))
                /\ Len(input) <= 63 => value = input
                /\ Len(input) > 63 =>
                    /\ Len(value) <= 63
                    /\ (value # << >> => Last(value) # "-")
                    /\ \A n \in (Len(value) + 1)..63 : input[n] = "-"
                /\ shorten_namespace(value) = value

\* a cut that fell into a run of hyphens and removed all of it
C20_Witness ==
    /\ namespace[1] # None
    /\ Len(namespace[1][1].input) > 63
    /\ Len(namespace[1][1].value) < 61
    /\ namespace[1][1].input[63] = "-"

\* what an element declares, read off the document
ExplicitCount(elem) ==
    IF elem.requirements = None THEN 0
    ELSE Len(SelectSeq(elem.requirements[1], LAMBDA r : r.pytype = ParsedRequirement))

HintCount(elem) ==
    IF elem.hints = None THEN 0
    ELSE Len(SelectSeq(elem.hints[1], LAMBDA h : h["class"] = "ResourceRequirement"))

\* one explicit block, or no explicit block and one hint
Declares(elem) ==
    ExplicitCount(elem) = 1 \/ (ExplicitCount(elem) = 0 /\ HintCount(elem) = 1)

DeclaredValue(elem, f) ==
    IF ExplicitCount(elem) = 1
    THEN SelectSeq(elem.requirements[1], LAMBDA r : r.pytype = ParsedRequirement)[1][f]
    ELSE LET hint == SelectSeq(elem.hints[1],
                               LAMBDA h : h["class"] = "ResourceRequirement")[1]
         IN  IF f \in DOMAIN hint THEN Some(hint[f]) ELSE None

\* no candidate, or several
ZeroOrSeveral(elem) ==
    (ExplicitCount(elem) = 0 /\ HintCount(elem) # 1) \/ ExplicitCount(elem) >= 2

TopLevel(j) == CHOOSE e \in DOMAIN cwl[j] : Last(cwl[j][e].id) = "main"

StepTarget(j, e, s) == get_object_by_id(cwl[j], Tail(cwl[j][e].steps[s].run)[1])

AppendsFor(j, e, s, f) ==
    SelectSeq(trace[j],
              LAMBDA c : c.op = "append" /\ c.elem = e /\ c.step = s /\ c.field = f)

Evaluated(j) == pc[j] # "start"

\* C13: for every step of the top-level workflow whose target declares a
\* resource requirement, each field the requirement sets is appended once
\* to its list, doubled when the step is scattered and as it is otherwise.
C13_ScatterDoubles ==
    \A j \in {1} : Returned(j) =>
        \A s \in DOMAIN cwl[j][TopLevel(j)].steps :
            LET target == StepTarget(j, TopLevel(j), s)
                multiplier == IF cwl[j][TopLevel(j)].steps[s].scatter # None THEN 2 ELSE 1
            IN  Declares(target) =>
                    \A f \in FieldSet :
                        DeclaredValue(target, f) # None =>
                            /\ Len(AppendsFor(j, TopLevel(j), s, f)) = 1
                            /\ AppendsFor(j, TopLevel(j), s, f)[1].value
                                    = DeclaredValue(target, f)[1] * multiplier

\* C14: a requirement that gives a field a value, zero included, adds one
\* entry to that field's list; a field it leaves out adds none.
C14_ZeroIsPresent ==
    \A j \in {1} : Returned(j) =>
        \A i \in DOMAIN trace[j] :
            (trace[j][i].op = "get_resource_requirement" /\ trace[j][i].returned # None) =>
                \A f \in FieldSet :
                    Len(AppendsFor(j, trace[j][i].elem, trace[j][i].step, f))
                        = (IF trace[j][i].returned[1][f] # None THEN 1 ELSE 0)

\* C15: for an element with one or more explicit ResourceRequirement blocks
\* get_resource_requirement never returns a requirement built from a hint.
C15_ExplicitBeforeHints ==
    \A j \in {1} :
        \A i \in DOMAIN trace[j] :
            (/\ trace[j][i].op = "get_resource_requirement"
             /\ ExplicitCount(trace[j][i].target) >= 1
             /\ trace[j][i].returned # None)
                => trace[j][i].returned[1].pytype # HintRequirement

\* C16: a step whose target has no candidate requirement, or several, adds
\* no entry and eval_resource completes without an error.
C16_NoCandidateNoError ==
    \A j \in {1} : Evaluated(j) =>
        \A s \in DOMAIN cwl[j][TopLevel(j)].steps :
            ZeroOrSeveral(StepTarget(j, TopLevel(j), s)) =>
                /\ Returned(j)
                /\ exc[j] = None
                /\ \A f \in FieldSet : AppendsFor(j, TopLevel(j), s, f) = << >>

\* C17: only the top-level workflow and its direct steps contribute, each
\* at most once by field; a nested workflow contributes as a step target
\* only, and its own steps contribute nothing.
C17_TopLevelOnly ==
    \A j \in {1} : Returned(j) =>
        /\ \A i \in DOMAIN trace[j] :
                trace[j][i].op = "append" => trace[j][i].elem = TopLevel(j)
        /\ \A i, k \in DOMAIN trace[j] :
                (/\ trace[j][i].op = "append" /\ trace[j][k].op = "append"
                 /\ trace[j][i].elem = trace[j][k].elem
                 /\ trace[j][i].step = trace[j][k].step
                 /\ trace[j][i].field = trace[j][k].field) => i = k
====
